---- MODULE Spec2Model ----
(***************************************************************************)
(* Model of rpi-srv.py: the ChannelList measurement cycle, the reactor     *)
(* (main loop) with its three event sources, the datagram codec, the MIB   *)
(* registry and the control-channel codec.                                 *)
(*                                                                         *)
(* Conventions.  Python None is the value None (= -1): every modelled      *)
(* integer and timestamp is >= 0, so -1 never collides with a value.       *)
(* time.time() is a tick counter, now, and each call reads a later tick.   *)
(* Strings that the code parses (OIDs, control-channel lines) are          *)
(* sequences of one-character strings; datagrams are sequences of bytes.   *)
(* step names the branch the current iteration of the main loop took;      *)
(* data, sent and sendto, or lines and stdout, hold what that iteration    *)
(* read and wrote.  A datagram, or lines on stdin, wait in the kernel      *)
(* until the main loop reads them and nothing else looks at them: they     *)
(* arrive in the step that reads them.  Signal numbers wait in the wakeup  *)
(* pipe, which is part of the state.                                       *)
(***************************************************************************)
EXTENDS Integers, Sequences, FiniteSets, TLC

(***************************************************************************)
(* Bounds of the model (not program constants).                            *)
(***************************************************************************)
MaxEvents == 3
MaxCalls == 3
MaxReads == 2
MaxFailures == 1

(***************************************************************************)
(* Program constants.                                                      *)
(***************************************************************************)
None == -1
PROTO_VER == 1
PROTO_AUTHTYPE_NONE == 1
PROTO_UNUSED == 0
PROTO_HDRSIZ == 4
PROTO_CMD_GETLAST == 1
PROTO_CMD_RETLAST == 2
VREF == 3324
R_PU == 9920
R_PD == 9930
DEF_AVG_SAMPLES == 5
SIG_WAKEUP_FD_RLEN == 8
NumChannels == 4
SIGHUP == 1
SIGINT == 2
SIGALRM == 14
SIGTERM == 15

\* channels_conf.keys(), sorted: the channel numbers 0..3
sorted_channels == [i \in 1..NumChannels |-> i - 1]
Channels == {sorted_channels[i] : i \in 1..NumChannels}

\* factor = VREF * (R_PU + R_PD) / R_PD, kept as an exact fraction
FactorNum == VREF * (R_PU + R_PD)
FactorDen == R_PD

\* MCP3008.value is a float in [0, 1]; a run of the model reads one of the two
\* ends of the range, the level adc chosen by the initial state
AdcValues == {0, 1}

\* Callers of ChannelList.measure(): the reactor (main loop) and, in SpecMT,
\* further threads calling the same object
Threads == {"t1", "t2"}
Callers == {"reactor"} \cup Threads

VARIABLES
    valid, ts_start, ts_complete, lock, last_values, vec,
    now, adc, pc, mi, mj, ret, exc,
    cycle, snapCycle, lvCycle, failures, idleTicks, step, sendto, calls,
    pipe, signums, data, sent, lines, stdout, oid_next, status, cleanups, events, reads,
    in_pkts_total, in_pkts_valid, in_pkts_bad,
    in_pkts_bad_ver, in_pkts_bad_len, in_pkts_bad_cmd,
    out_pkts_total, out_pkts_success, out_pkts_failed,
    call, result, stderr

clVars == <<valid, ts_start, ts_complete, lock, last_values, vec>>
callVars == <<pc, mi, mj, ret, exc>>
ghostVars == <<cycle, snapCycle, lvCycle, failures>>
obsVars == <<idleTicks, step, sendto>>
envVars == <<adc, pipe, signums, data, sent, lines, stdout, oid_next, status, cleanups, events,
            reads>>
statVars == <<in_pkts_total, in_pkts_valid, in_pkts_bad,
              in_pkts_bad_ver, in_pkts_bad_len, in_pkts_bad_cmd,
              out_pkts_total, out_pkts_success, out_pkts_failed>>
\* The function applied last outside the main loop, and what it returned
fnVars == <<call, result>>
\* The lines the socket branch or the control-channel branch wrote to
\* sys.stderr for the event handled last, by their first word
vars == <<clVars, now, callVars, ghostVars, obsVars, calls, envVars, statVars, fnVars,
          stderr>>

(***************************************************************************)
(* Pure helpers.                                                           *)
(***************************************************************************)
\* A variant: ties go up
Round_half_up(n, d) == (2 * n + d) \div (2 * d)

\* Python 3 round() of the fraction n/d (d > 0): nearest integer, ties to even
Round(n, d) ==
    LET q == n \div d
        r == n % d
    IN  IF 2 * r < d THEN q
        ELSE IF 2 * r > d THEN q + 1
        ELSE IF q % 2 = 0 THEN q ELSE q + 1

\* The value the next call of time.time() returns: every call reads a later tick
Times == {now + 1}

(***************************************************************************)
(* Channel                                                                 *)
(***************************************************************************)
\* Channel.__init__
NewChannel == [acc |-> 0, samples |-> 0, valid |-> FALSE, last |-> None, ts |-> None]

\* Channel.reset_acc
reset_acc(c) == [c EXCEPT !.acc = 0, !.samples = 0]

\* Channel.add_acc with the value v read from the ADC
add_acc(c, v) == [c EXCEPT !.acc = @ + v, !.samples = @ + 1]

\* Channel.avg_acc(factor) at time t, the factor being the fraction num/den
avg_acc_factor(c, num, den, t) ==
    [c EXCEPT !.valid = TRUE,
              !.last = Round(c.acc * num, c.samples * den),
              !.ts = t]

\* Channel.avg_acc(factor) with the factor the main program gives its
\* ChannelList
avg_acc(c, t) == avg_acc_factor(c, FactorNum, FactorDen, t)

\* Channel.get_lastprop
get_lastprop(c) == <<c.valid, c.last, c.ts>>

(***************************************************************************)
(* ChannelList.measure(), one action per step of the calling thread c      *)
(***************************************************************************)
InCycle(c) == pc[c] \in {"begin", "read", "avg", "finally"}

\* A busy return that also clears the valid flag (a variant of MeasureBusy)
MeasureBusy_touch(c) ==
    /\ valid' = FALSE
    /\ ret' = [ret EXCEPT ![c] = -1]
    /\ pc' = [pc EXCEPT ![c] = "ret"]
    /\ UNCHANGED <<ts_start, ts_complete, lock, last_values, vec, now, mi, mj,
                   exc, ghostVars>>

\* lock.acquire(blocking=False) failed: return -1
MeasureBusy(c) ==
    /\ ret' = [ret EXCEPT ![c] = -1]
    /\ pc' = [pc EXCEPT ![c] = "ret"]
    /\ UNCHANGED <<clVars, now, mi, mj, exc, ghostVars>>

\* lock.acquire(blocking=False) succeeded
MeasureLocked(c) ==
    /\ lock' = TRUE
    /\ pc' = [pc EXCEPT ![c] = "begin"]
    /\ UNCHANGED <<valid, ts_start, ts_complete, last_values, vec, now, mi, mj,
                   ret, exc, ghostVars>>

\* An acquire that never finds the lock held (a variant of LockFree)
LockFree_always == TRUE

\* Whether lock.acquire(blocking=False) finds the lock free
LockFree == ~lock

\* if self._lock.acquire(blocking=False): ... else: return -1
MeasureAcquire(c) ==
    /\ pc[c] = "acquire"
    /\ IF LockFree THEN MeasureLocked(c) ELSE MeasureBusy(c)
    /\ UNCHANGED <<obsVars, calls, envVars, statVars>>
    /\ UNCHANGED fnVars
    /\ UNCHANGED stderr

\* self._valid = False; self._ts_start = time.time(); self.reset(); i = self._samples
MeasureBegin(c) ==
    /\ pc[c] = "begin"
    /\ \E t \in Times :
          /\ now' = t
          /\ ts_start' = t
    /\ valid' = FALSE
    /\ vec' = [ch \in Channels |-> reset_acc(vec[ch])]
    /\ mi' = [mi EXCEPT ![c] = DEF_AVG_SAMPLES]
    /\ pc' = [pc EXCEPT ![c] = IF DEF_AVG_SAMPLES # 0 THEN "read" ELSE "finally"]
    /\ cycle' = cycle + 1
    /\ snapCycle' = cycle + 1
    /\ UNCHANGED <<ts_complete, lock, last_values, mj, ret, exc, lvCycle, failures,
                   obsVars, calls, envVars, statVars>>
    /\ UNCHANGED fnVars
    /\ UNCHANGED stderr

\* self.read(); i -= 1; sleep or go on to average().  The ADC read of the k-th
\* channel (in sorted order) may raise: k = NumChannels + 1 means no read raised.
\* failures counts the reads that raised.
FailingReads ==
    IF failures < MaxFailures THEN 1..(NumChannels + 1) ELSE {NumChannels + 1}

MeasureRead(c) ==
    /\ pc[c] = "read"
    /\ \E v \in {adc}, k \in FailingReads :
          /\ vec' = [ch \in Channels |->
                        IF \E n \in 1..(k - 1) : sorted_channels[n] = ch
                        THEN add_acc(vec[ch], v) ELSE vec[ch]]
          /\ IF k <= NumChannels
             THEN /\ exc' = [exc EXCEPT ![c] = TRUE]
                  /\ pc' = [pc EXCEPT ![c] = "finally"]
                  /\ failures' = failures + 1
                  /\ UNCHANGED <<mi, mj>>
             ELSE /\ mi' = [mi EXCEPT ![c] = @ - 1]
                  /\ IF mi[c] - 1 # 0
                     THEN UNCHANGED <<pc, mj>>
                     ELSE /\ pc' = [pc EXCEPT ![c] = "avg"]
                          /\ mj' = [mj EXCEPT ![c] = 1]
                  /\ UNCHANGED <<exc, failures>>
    /\ UNCHANGED <<valid, ts_start, ts_complete, lock, last_values, now, ret,
                   cycle, snapCycle, lvCycle, obsVars, calls, envVars, statVars>>
    /\ UNCHANGED fnVars
    /\ UNCHANGED stderr

\* An average() that stores only the last channel's result in the mapping (a
\* variant of AverageOne)
AverageOne_unpublished(c, ch, t) ==
    /\ vec' = [vec EXCEPT ![ch] = avg_acc(vec[ch], t)]
    /\ IF mj[c] = NumChannels
       THEN /\ last_values' = [last_values EXCEPT
                                  ![ch] = get_lastprop(avg_acc(vec[ch], t))]
            /\ lvCycle' = [lvCycle EXCEPT ![ch] = cycle]
       ELSE UNCHANGED <<last_values, lvCycle>>

\* One iteration of the loop of ChannelList.average(); lvCycle records the
\* cycle that stored the entry
AverageOne(c, ch, t) ==
    /\ vec' = [vec EXCEPT ![ch] = avg_acc(vec[ch], t)]
    /\ last_values' = [last_values EXCEPT ![ch] = get_lastprop(avg_acc(vec[ch], t))]
    /\ lvCycle' = [lvCycle EXCEPT ![ch] = cycle]

MeasureAverage(c) ==
    /\ pc[c] = "avg"
    /\ \E t \in Times :
          /\ now' = t
          /\ AverageOne(c, sorted_channels[mj[c]], t)
    /\ IF mj[c] = NumChannels
       THEN /\ pc' = [pc EXCEPT ![c] = "finally"]
            /\ UNCHANGED mj
       ELSE /\ mj' = [mj EXCEPT ![c] = @ + 1]
            /\ UNCHANGED pc
    /\ UNCHANGED <<valid, ts_start, ts_complete, lock, mi, ret, exc,
                   cycle, snapCycle, failures, obsVars, calls, envVars, statVars>>
    /\ UNCHANGED fnVars
    /\ UNCHANGED stderr

\* A release that is skipped when the try block raised (a variant of
\* AfterRelease)
AfterRelease_on_success(c) == exc[c]

\* self._lock.release(): whether the lock is held afterwards
AfterRelease(c) == FALSE

\* finally: ts_complete, valid = True, release, return 0.  The return inside
\* finally discards an exception raised in the try block.
MeasureFinally(c) ==
    /\ pc[c] = "finally"
    /\ \E t \in Times :
          /\ now' = t
          /\ ts_complete' = t
    /\ valid' = TRUE
    /\ lock' = AfterRelease(c)
    /\ ret' = [ret EXCEPT ![c] = 0]
    /\ exc' = [exc EXCEPT ![c] = FALSE]
    /\ pc' = [pc EXCEPT ![c] = "ret"]
    /\ UNCHANGED <<ts_start, last_values, vec, mi, mj, ghostVars,
                   obsVars, calls, envVars, statVars>>
    /\ UNCHANGED fnVars
    /\ UNCHANGED stderr

(***************************************************************************)
(* Threads calling measure() on one ChannelList (SpecMT)                   *)
(***************************************************************************)
ThreadCall(c) ==
    /\ pc[c] = "idle"
    /\ calls < MaxCalls
    /\ calls' = calls + 1
    /\ pc' = [pc EXCEPT ![c] = "acquire"]
    /\ ret' = [ret EXCEPT ![c] = None]
    /\ UNCHANGED <<clVars, now, mi, mj, exc, ghostVars, obsVars, envVars, statVars>>
    /\ UNCHANGED fnVars
    /\ UNCHANGED stderr

ThreadReturn(c) ==
    /\ pc[c] = "ret"
    /\ pc' = [pc EXCEPT ![c] = "idle"]
    /\ UNCHANGED <<clVars, now, mi, mj, ret, exc, ghostVars, obsVars, calls, envVars, statVars>>
    /\ UNCHANGED fnVars
    /\ UNCHANGED stderr

(***************************************************************************)
(* Initial state: after ChannelList(), add_ch() of every configured        *)
(* channel, the statistics initialisation and before the main loop         *)
(***************************************************************************)
\* Everything but the content of the wakeup pipe
Constructed ==
    /\ valid = FALSE
    /\ ts_start = None
    /\ ts_complete = None
    /\ lock = FALSE
    /\ vec = [ch \in Channels |-> NewChannel]
    /\ last_values = [ch \in Channels |-> get_lastprop(NewChannel)]
    /\ now = 1
    /\ adc \in AdcValues
    /\ pc = [c \in Callers |-> IF c = "reactor" THEN "poll" ELSE "idle"]
    /\ mi = [c \in Callers |-> 0]
    /\ mj = [c \in Callers |-> 0]
    /\ ret = [c \in Callers |-> None]
    /\ exc = [c \in Callers |-> FALSE]
    /\ cycle = 0
    /\ snapCycle = 0
    /\ lvCycle = [ch \in Channels |-> 0]
    /\ failures = 0
    /\ idleTicks = 0
    /\ step = "start"
    /\ sendto = "none"
    /\ calls = 0
    /\ signums = <<>>
    /\ data = <<>>
    /\ sent = <<>>
    /\ lines = <<>>
    /\ stdout = <<>>
    /\ oid_next = <<"None">>
    /\ status = "running"
    /\ cleanups = <<>>
    /\ events = 0
    /\ reads = 0
    /\ in_pkts_total = 0
    /\ in_pkts_valid = 0
    /\ in_pkts_bad = 0
    /\ in_pkts_bad_ver = 0
    /\ in_pkts_bad_len = 0
    /\ in_pkts_bad_cmd = 0
    /\ out_pkts_total = 0
    /\ out_pkts_success = 0
    /\ out_pkts_failed = 0
    /\ call = <<>>
    /\ result = <<>>
    /\ stderr = <<>>

\* No signal was delivered before the main loop started
Init ==
    /\ pipe = <<>>
    /\ Constructed

NextMT ==
    \E c \in Threads :
        \/ ThreadCall(c)
        \/ MeasureAcquire(c)
        \/ MeasureBegin(c)
        \/ MeasureRead(c)
        \/ MeasureAverage(c)
        \/ MeasureFinally(c)
        \/ ThreadReturn(c)

SpecMT == Init /\ [][NextMT]_vars

(***************************************************************************)
(* Datagram codec                                                          *)
(***************************************************************************)
\* n as w bytes, most significant first
RECURSIVE BE(_, _)
BE(n, w) == IF w = 0 THEN <<>> ELSE BE(n \div 256, w - 1) \o <<n % 256>>

\* struct.pack formats: B takes an integer in 0..255 (a bool packs as 0 or 1), L
\* an integer in 0..2^32-1, d a float; any other argument raises struct.error
Bool2Int(b) == IF b THEN 1 ELSE 0
CanPackB(x) == x \in 0..255
CanPackL(x) == x # None /\ x >= 0 /\ (x \div 65536) < 65536
CanPackD(x) == x # None
PackB(x) == BE(x, 1)
PackL(x) == BE(x, 4)
\* The 8 bytes of a double are modelled as the 8-byte big-endian tick count
PackD(x) == BE(x, 8)

\* retlast_hdr = struct.pack('>BBBB', PROTO_VER, PROTO_AUTHTYPE_NONE, PROTO_UNUSED, PROTO_CMD_RETLAST)
retlast_hdr == <<PROTO_VER, PROTO_AUTHTYPE_NONE, PROTO_UNUSED, PROTO_CMD_RETLAST>>

\* struct.pack('>BBLd', ch, valid, last, ts) for one entry of last_values
PackChannel(ch, lv) ==
    PackB(ch) \o PackB(Bool2Int(lv[1])) \o PackL(lv[2]) \o PackD(lv[3])

CanPackChannel(ch, lv) == CanPackB(ch) /\ CanPackL(lv[2]) /\ CanPackD(lv[3])

RECURSIVE PackChannels(_)
PackChannels(n) ==
    IF n = 0 THEN <<>>
    ELSE PackChannels(n - 1)
         \o PackChannel(sorted_channels[n], last_values[sorted_channels[n]])

\* Whether every struct.pack of the RETLAST construction succeeds
CanPackRetlast ==
    /\ CanPackB(NumChannels)
    /\ CanPackD(ts_start)
    /\ CanPackD(ts_complete)
    /\ \A ch \in Channels : CanPackChannel(ch, last_values[ch])

\* retlast_pdu as built by process_message from ch_list.last()
RetlastPdu ==
    retlast_hdr \o PackB(NumChannels) \o PackB(Bool2Int(valid))
    \o PackD(ts_start) \o PackD(ts_complete) \o PackChannels(NumChannels)

(***************************************************************************)
(* cleanup()                                                               *)
(***************************************************************************)
\* A cleanup that closes the descriptors before it releases the channels (a
\* variant of CleanupSteps)
CleanupSteps_descriptors_first ==
    <<"setitimer", "poller.close", "close pipe_r", "close pipe_w", "sock.close",
      "destroy">>

\* cleanup(): the calls it makes, in order (debug is off)
CleanupSteps == <<"setitimer", "destroy", "poller.close", "close pipe_r",
                  "close pipe_w", "sock.close">>

\* The process stops: after cleanup() and sys.exit(code), or by an uncaught
\* exception ("crashed", no cleanup)
Exit(how) ==
    /\ status' = how
    /\ pc' = [pc EXCEPT !["reactor"] = "exited"]
    /\ cleanups' = IF how = "crashed" THEN cleanups ELSE cleanups \o CleanupSteps

(***************************************************************************)
(* The environment: signals, datagrams                                     *)
(***************************************************************************)
Signals == {SIGALRM, SIGINT, SIGTERM, SIGHUP}

\* A signal is delivered: the C-level handler writes its number to the wakeup
\* pipe at once, whatever the main loop is doing.  idleTicks counts the alarms
\* delivered while no measurement cycle was in progress.
SignalArrive ==
    /\ status = "running"
    /\ events < MaxEvents
    /\ \E sig \in Signals :
          /\ pipe' = Append(pipe, sig)
          /\ idleTicks' = idleTicks + Bool2Int(sig = SIGALRM /\ ~lock)
    /\ events' = events + 1
    /\ UNCHANGED <<step, sendto>>
    /\ UNCHANGED <<clVars, now, callVars, ghostVars, calls, adc, signums, data,
                   sent, lines, stdout, oid_next, status, cleanups, reads,
                   statVars>>
    /\ UNCHANGED fnVars
    /\ UNCHANGED stderr

Datagrams ==
    { <<1, 1, 0, 1>>,       \* GETLAST
      <<1, 7, 5, 1>>,       \* GETLAST, other auth-type and reserved bytes
      <<99, 1, 0, 1>>,      \* wrong version
      <<2, 1, 0, 9>>,       \* wrong version and unsupported command
      <<1, 1, 0, 1, 0>>,    \* GETLAST with a trailing byte
      <<1, 1, 0, 2>>,       \* unsupported command
      <<1, 1, 0>>,          \* short header
      <<>> }                \* empty datagram

(***************************************************************************)
(* The main loop: signal branch                                            *)
(***************************************************************************)
\* A variant: the read takes all the pipe holds, whatever the length asked for
Min_first(a, b) == a

Min(a, b) == IF a < b THEN a ELSE b

\* data = os.read(pipe_r, SIG_WAKEUP_FD_RLEN); signums = struct.unpack(...)
ReadSignals ==
    /\ status = "running"
    /\ pc["reactor"] = "poll"
    /\ pipe # <<>>
    /\ signums' = SubSeq(pipe, 1, Min(Len(pipe), SIG_WAKEUP_FD_RLEN))
    /\ pipe' = SubSeq(pipe, Min(Len(pipe), SIG_WAKEUP_FD_RLEN) + 1, Len(pipe))
    /\ pc' = [pc EXCEPT !["reactor"] = "signals"]
    /\ step' = "signal"
    /\ data' = <<>>
    /\ sent' = <<>>
    /\ sendto' = "none"
    /\ lines' = <<>>
    /\ stdout' = <<>>
    /\ stderr' = <<>>
    /\ UNCHANGED <<clVars, now, mi, mj, ret, exc, ghostVars, idleTicks, calls, adc,
                   oid_next, status, cleanups, events, reads, statVars>>
    /\ UNCHANGED fnVars

\* A variant: the loop over signums is left after its first iteration
AfterSignal_poll(rest) == "poll"

\* The place the loop over signums goes on from
AfterSignal(rest) == IF rest = <<>> THEN "poll" ELSE "signals"

\* for signum in signums: one iteration
ProcessSignal ==
    /\ status = "running"
    /\ pc["reactor"] = "signals"
    /\ signums # <<>>
    /\ signums' = Tail(signums)
    /\ LET signum == Head(signums) IN
          IF signum = SIGALRM
          THEN /\ pc' = [pc EXCEPT !["reactor"] = "acquire"]
               /\ ret' = [ret EXCEPT !["reactor"] = None]
               /\ UNCHANGED <<status, cleanups, vec, last_values>>
          ELSE IF signum \in {SIGINT, SIGTERM}
          THEN /\ Exit("exit0")
               /\ vec' = <<>>
               /\ last_values' = <<>>
               /\ UNCHANGED ret
          ELSE /\ pc' = [pc EXCEPT !["reactor"] = AfterSignal(Tail(signums))]
               /\ UNCHANGED <<status, cleanups, vec, last_values, ret>>
    /\ step' = "signal"
    /\ UNCHANGED <<valid, ts_start, ts_complete, lock, now, mi, mj, exc, ghostVars,
                   idleTicks, sendto, calls, adc, pipe, data, sent, lines, stdout,
                   oid_next, events, reads, statVars>>
    /\ UNCHANGED fnVars
    /\ UNCHANGED stderr

\* run_measure_circle() after ch_list.measure() returned: an error line when it
\* returned non-zero; print_table is False when acting as SNMP agent
MeasureReturn ==
    /\ status = "running"
    /\ pc["reactor"] = "ret"
    /\ pc' = [pc EXCEPT !["reactor"] = AfterSignal(signums)]
    /\ UNCHANGED <<clVars, now, mi, mj, ret, exc, ghostVars, obsVars, calls,
                   envVars, statVars>>
    /\ UNCHANGED fnVars
    /\ UNCHANGED stderr

(***************************************************************************)
(* The main loop: socket branch, process_message()                         *)
(***************************************************************************)
\* What sock.sendto() does: "full" returns the PDU's length, "short" a smaller
\* number, "oserror" raises OSError
SendOutcomes == {"full", "short", "oserror"}

\* A classification that looks at the command before the version (a variant of
\* Classify)
Classify_cmd_first(dgram) ==
    IF Len(dgram) < PROTO_HDRSIZ THEN "bad_len"
    ELSE IF dgram[4] = PROTO_CMD_GETLAST
         THEN IF Len(dgram) > PROTO_HDRSIZ THEN "bad_len"
              ELSE IF dgram[1] # PROTO_VER THEN "bad_ver" ELSE "getlast"
         ELSE "bad_cmd"

\* A classification with one more kind of bad datagram, which has no counter
\* of its own (a variant of Classify)
Classify_auth(dgram) ==
    IF Len(dgram) < PROTO_HDRSIZ THEN "bad_len"
    ELSE IF dgram[1] # PROTO_VER THEN "bad_ver"
    ELSE IF dgram[2] # 1 THEN "bad_auth"
    ELSE IF dgram[4] = PROTO_CMD_GETLAST
         THEN IF Len(dgram) > PROTO_HDRSIZ THEN "bad_len" ELSE "getlast"
         ELSE "bad_cmd"

\* The branch process_message() takes on data (a non-empty datagram)
Classify(dgram) ==
    IF Len(dgram) < PROTO_HDRSIZ THEN "bad_len"
    ELSE IF dgram[1] # PROTO_VER THEN "bad_ver"
    ELSE IF dgram[4] = PROTO_CMD_GETLAST
         THEN IF Len(dgram) > PROTO_HDRSIZ THEN "bad_len" ELSE "getlast"
         ELSE "bad_cmd"

\* The reply of a well-formed GETLAST
SendRetlast(how) ==
    IF ~CanPackRetlast
    THEN \* struct.error, not caught: the process dies with a traceback
         /\ Exit("crashed")
         /\ sent' = <<>>
         /\ sendto' = "none"
         /\ UNCHANGED <<out_pkts_total, out_pkts_success, out_pkts_failed>>
    ELSE IF how = "oserror"
    THEN \* the except clause's format string raises ValueError before cleanup()
         /\ Exit("crashed")
         /\ sent' = <<>>
         /\ sendto' = how
         /\ UNCHANGED <<out_pkts_total, out_pkts_success, out_pkts_failed>>
    ELSE /\ sent' = <<RetlastPdu>>
         /\ sendto' = how
         /\ out_pkts_total' = out_pkts_total + 1
         /\ out_pkts_success' = out_pkts_success + Bool2Int(how = "full")
         /\ out_pkts_failed' = out_pkts_failed + Bool2Int(how = "short")
         /\ UNCHANGED <<status, cleanups, pc>>

process_message(dgram, how) ==
    LET kind == Classify(dgram) IN
    /\ in_pkts_total' = in_pkts_total + 1
    /\ in_pkts_valid' = in_pkts_valid + Bool2Int(kind = "getlast")
    /\ in_pkts_bad' = in_pkts_bad + Bool2Int(kind # "getlast")
    /\ in_pkts_bad_ver' = in_pkts_bad_ver + Bool2Int(kind = "bad_ver")
    /\ in_pkts_bad_len' = in_pkts_bad_len + Bool2Int(kind = "bad_len")
    /\ in_pkts_bad_cmd' = in_pkts_bad_cmd + Bool2Int(kind = "bad_cmd")
    /\ IF kind = "getlast"
       THEN SendRetlast(how)
       ELSE /\ sent' = <<>>
            /\ sendto' = "none"
            /\ UNCHANGED <<out_pkts_total, out_pkts_success, out_pkts_failed,
                           status, cleanups, pc>>

\* What the interpreter writes to sys.stderr when the process ends by an
\* exception nobody catches
Uncaught(how) == IF how = "crashed" THEN <<"Traceback">> ELSE <<>>

\* A datagram d arrives and the main loop reads it:
\* data, client_address = sock.recvfrom(RECV_BUFSIZ); if data: process_message()
HandleSocket ==
    /\ status = "running"
    /\ pc["reactor"] = "poll"
    /\ events < MaxEvents
    /\ events' = events + 1
    /\ \E d \in Datagrams :
          /\ data' = d
          /\ IF d = <<>>
             THEN /\ sent' = <<>>
                  /\ sendto' = "none"
                  /\ UNCHANGED <<status, cleanups, pc, statVars>>
             ELSE \E how \in SendOutcomes : process_message(d, how)
    /\ stderr' = Uncaught(status')
    /\ step' = "socket"
    /\ UNCHANGED <<clVars, now, mi, mj, ret, exc, ghostVars, idleTicks, calls, adc,
                   pipe, signums, lines, stdout, oid_next, reads>>
    /\ UNCHANGED fnVars

\* The socket is reported readable and sock.recvfrom() raises OSError: the
\* format string of the handler's dbg() call raises ValueError before cleanup()
RecvError ==
    /\ status = "running"
    /\ pc["reactor"] = "poll"
    /\ events < MaxEvents
    /\ events' = events + 1
    /\ Exit("crashed")
    /\ sent' = <<>>
    /\ sendto' = "none"
    /\ step' = "recverr"
    /\ stderr' = Uncaught("crashed")
    /\ UNCHANGED <<clVars, now, mi, mj, ret, exc, ghostVars, idleTicks, calls, adc,
                   pipe, signums, data, lines, stdout, oid_next, reads,
                   statVars>>
    /\ UNCHANGED fnVars

(***************************************************************************)
(* Strings: sequences of one-character strings                             *)
(***************************************************************************)
NL == "\n"
DigitChars == <<"0", "1", "2", "3", "4", "5", "6", "7", "8", "9">>

\* str.isdigit() of a one-character string
IsDigitChar(ch) == \E i \in 1..10 : DigitChars[i] = ch

\* int() of a digit
DigitVal(ch) == (CHOOSE i \in 1..10 : DigitChars[i] = ch) - 1

\* str.isdigit(): not empty and all digits
IsDigit(e) == e # <<>> /\ \A i \in 1..Len(e) : IsDigitChar(e[i])

\* An int() that reads the first digit only (a variant of ToInt)
ToInt_first(e) == DigitVal(e[1])

\* int(e) of a string of digits
RECURSIVE ToIntPrefix(_, _)
ToIntPrefix(e, n) ==
    IF n = 0 THEN 0 ELSE 10 * ToIntPrefix(e, n - 1) + DigitVal(e[n])
ToInt(e) == ToIntPrefix(e, Len(e))

\* str(n) of an integer n >= 0
RECURSIVE Str(_)
Str(n) == IF n < 10 THEN <<DigitChars[n + 1]>>
          ELSE Str(n \div 10) \o <<DigitChars[(n % 10) + 1]>>

\* s.lstrip(ch), s.rstrip(ch), s.strip(ch)
LStrip(s, ch) ==
    LET keep == {i \in 1..Len(s) : s[i] # ch}
    IN  IF keep = {} THEN <<>>
        ELSE SubSeq(s, CHOOSE i \in keep : \A j \in keep : i <= j, Len(s))
RStrip(s, ch) ==
    LET keep == {i \in 1..Len(s) : s[i] # ch}
    IN  IF keep = {} THEN <<>>
        ELSE SubSeq(s, 1, CHOOSE i \in keep : \A j \in keep : i >= j)
Strip(s, ch) == RStrip(LStrip(s, ch), ch)

\* s.split(ch): always at least one component, the empty string for an empty s
\* SplitFrom scans s from position i; the current component began at start
RECURSIVE SplitFrom(_, _, _, _)
SplitFrom(s, ch, i, start) ==
    IF i > Len(s) THEN <<SubSeq(s, start, Len(s))>>
    ELSE IF s[i] = ch
    THEN <<SubSeq(s, start, i - 1)>> \o SplitFrom(s, ch, i + 1, i + 1)
    ELSE SplitFrom(s, ch, i + 1, start)

Split(s, ch) == SplitFrom(s, ch, 1, 1)

\* full.find(prefix) == 0
StartsWith(full, prefix) ==
    Len(full) >= Len(prefix) /\ SubSeq(full, 1, Len(prefix)) = prefix

(***************************************************************************)
(* cmp_oids                                                                *)
(***************************************************************************)
\* The result None of cmp_oids (wrong format); -1, 0, 1 are its other results
CmpNone == 2

\* The while loop and the final comparison of lengths
\* The sign of a difference
Sign(d) == IF d < 0 THEN -1 ELSE IF d > 0 THEN 1 ELSE 0

\* An empty element is replaced with '0'
ZeroIfEmpty(e) == IF e = <<>> THEN <<"0">> ELSE e

\* One pass of the loop on a pair of elements: None, -1, 1, or 0 to go on
CmpDigits(e1, e2) ==
    IF ~IsDigit(e1) \/ ~IsDigit(e2) THEN CmpNone ELSE Sign(ToInt(e1) - ToInt(e2))

CmpElems(x1, x2) == CmpDigits(ZeroIfEmpty(x1), ZeroIfEmpty(x2))

\* The loop returns c when the pass decided, and goes on otherwise
Decided(c, rest) == IF c # 0 THEN c ELSE rest

\* The while loop from the i-th elements on, and the comparison of the lengths
RECURSIVE CmpFrom(_, _, _)
CmpFrom(list1, list2, i) ==
    IF i <= Len(list1) /\ i <= Len(list2)
    THEN Decided(CmpElems(list1[i], list2[i]), CmpFrom(list1, list2, i + 1))
    ELSE IF i <= Len(list1) THEN 1
    ELSE IF i <= Len(list2) THEN -1
    ELSE 0

CmpLists(list1, list2) == CmpFrom(list1, list2, 1)

cmp_oids(oid1, oid2) == CmpLists(Split(Strip(oid1, "."), "."), Split(Strip(oid2, "."), "."))

(***************************************************************************)
(* mib_init                                                                *)
(***************************************************************************)
MIB_MAX_ACCESS_NA == 0
MIB_MAX_ACCESS_RO == 2
MIB_BASE == <<".", "1", ".", "3", ".", "6", ".", "1", ".", "3", ".", "9", "9", "9">>

\* A MIBVar: its OID (the key), syntax, access, handler and time-ticks flag
Var(oid, handler, access, syntax, conv) ==
    [oid |-> oid, handler |-> handler, ch |-> None, max_access |-> access,
     syntax |-> syntax, timeticks_conv |-> conv]

\* A table header: not-accessible, syntax OID, the default handler lambda: None
Node(oid) == Var(oid, "none", MIB_MAX_ACCESS_NA, "objectid", FALSE)

\* A readable scalar
Leaf(oid, handler, syntax) == Var(oid, handler, MIB_MAX_ACCESS_RO, syntax, FALSE)

\* The five columns of channel i (the i-th of ch_list.sorted_ch_nums())
ChannelVars(i) ==
    LET s1 == <<".", "1", ".", "1", ".">> \o Str(sorted_channels[i] + 1)
        p == <<".", "1", ".", "6", ".", "1", ".">>
        col(n, handler, syntax, conv) ==
            [Var(p \o Str(n) \o s1, handler, MIB_MAX_ACCESS_RO, syntax, conv)
                EXCEPT !.ch = sorted_channels[i]]
    IN  << col(1, "get_num", "integer", FALSE),
           col(2, "get_label", "string", FALSE),
           col(3, "get_valid", "integer", FALSE),
           col(4, "get_last", "gauge", FALSE),
           col(5, "get_ts", "timeticks", TRUE) >>

RECURSIVE AllChannelVars(_)
AllChannelVars(n) == IF n = 0 THEN <<>> ELSE AllChannelVars(n - 1) \o ChannelVars(n)

\* The MIBVar objects in the order mib_init stores them.  The statistics
\* block is keyed with the prefix '1.4.1.', which has no leading dot.
MibVars ==
    << Node(<<>>),
       Node(<<".", "1">>),
       Leaf(<<".", "1", ".", "1", ".", "0">>, "one", "integer"),
       Node(<<".", "1", ".", "2">>),
       Node(<<".", "1", ".", "2", ".", "1">>),
       Leaf(<<".", "1", ".", "2", ".", "1", ".", "1", ".", "1">>, "SPI_PORT", "integer"),
       Leaf(<<".", "1", ".", "2", ".", "1", ".", "2", ".", "1">>, "SPI_DEVICE", "integer"),
       Leaf(<<".", "1", ".", "2", ".", "1", ".", "3", ".", "1">>, "devType", "integer"),
       Leaf(<<".", "1", ".", "2", ".", "1", ".", "4", ".", "1">>, "devName", "string"),
       Leaf(<<".", "1", ".", "2", ".", "1", ".", "5", ".", "1">>, "devChanNumber", "integer"),
       Leaf(<<".", "1", ".", "3", ".", "0">>, "one", "integer"),
       Node(<<".", "1", ".", "4">>),
       Node(<<".", "1", ".", "4", ".", "1">>),
       Leaf(<<"1", ".", "4", ".", "1", ".", "1", ".", "1">>, "valid", "integer"),
       Var(<<"1", ".", "4", ".", "1", ".", "2", ".", "1">>, "ts_start",
           MIB_MAX_ACCESS_RO, "timeticks", TRUE),
       Var(<<"1", ".", "4", ".", "1", ".", "3", ".", "1">>, "ts_complete",
           MIB_MAX_ACCESS_RO, "timeticks", TRUE),
       Leaf(<<".", "1", ".", "5", ".", "0">>, "num_of_channels", "integer"),
       Node(<<".", "1", ".", "6">>),
       Node(<<".", "1", ".", "6", ".", "1">>) >>
    \o AllChannelVars(NumChannels)

\* list(mib.keys()): the keys in the order they were stored
Keys(mibvars) == [n \in 1..Len(mibvars) |-> mibvars[n].oid]

\* sorted(keys, key=functools.cmp_to_key(cmp_oids)), a stable sort: the place
\* of the n-th key is after the keys that compare less and the keys stored
\* earlier that compare equal
Before(c, m, n) == c < 0 \/ (c = 0 /\ m < n)

SortedPlace(keys, n) ==
    1 + Cardinality({m \in 1..Len(keys) : Before(cmp_oids(keys[m], keys[n]), m, n)})

RECURSIVE SortedPlaces(_, _)
SortedPlaces(keys, n) ==
    IF n = 0 THEN <<>> ELSE Append(SortedPlaces(keys, n - 1), SortedPlace(keys, n))

RECURSIVE SortedTo(_, _, _)
SortedTo(keys, places, i) ==
    IF i = 0 THEN <<>>
    ELSE Append(SortedTo(keys, places, i - 1),
                keys[CHOOSE n \in 1..Len(keys) : places[n] = i])

SortOids(keys) == SortedTo(keys, SortedPlaces(keys, Len(keys)), Len(keys))

\* The value None of an OID (no successor, no candidate)
NoOid == <<"None">>

\* A loop that stops one OID early (a variant of After)
After_short(oids, i) == IF i < Len(oids) - 1 THEN oids[i + 1] ELSE NoOid

\* mib[oids[i]].set_successor(oids[i + 1]) for every i but the last
After(oids, i) == IF i < Len(oids) THEN oids[i + 1] ELSE NoOid
Successor(oids, o) == After(oids, CHOOSE k \in 1..Len(oids) : oids[k] = o)

\* The MIBVar stored under its OID, with its successor
Stored(v, succ) ==
    v.oid :> [oid |-> v.oid, handler |-> v.handler, ch |-> v.ch,
              max_access |-> v.max_access, syntax |-> v.syntax,
              timeticks_conv |-> v.timeticks_conv, next_oid |-> succ]

\* mib[oid] = MIBVar(...) for each variable in turn: a later assignment to the
\* same key replaces the earlier one
RECURSIVE MibTo(_, _, _)
MibTo(mibvars, oids, n) ==
    IF n = 0 THEN <<>>
    ELSE Stored(mibvars[n], Successor(oids, mibvars[n].oid)) @@ MibTo(mibvars, oids, n - 1)

\* The globals mib and oids after mib_init and the sort in the main program
Registry(mibvars, oids) == [mib |-> MibTo(mibvars, oids, Len(mibvars)), oids |-> oids]
mib_init == Registry(MibVars, SortOids(Keys(MibVars)))

(***************************************************************************)
(* Lookups                                                                 *)
(***************************************************************************)
\* The test of the stripped OID: empty or beginning with a dot
StripBase(full_oid, oid) ==
    IF StartsWith(full_oid, MIB_BASE) /\ (Len(oid) = 0 \/ oid[1] = ".")
    THEN oid ELSE NoOid

\* A strip_full_oid that returns the OID with its base (a variant)
strip_full_oid_unstripped(full_oid) == full_oid

\* strip_full_oid: the OID relative to MIB_BASE, or NoOid
strip_full_oid(full_oid) ==
    StripBase(full_oid, SubSeq(full_oid, Len(MIB_BASE) + 1, Len(full_oid)))

\* mib.get(oid): the key of the MIBVar, or NoOid for None
MibGet(mib, oid) == IF oid \in DOMAIN mib THEN oid ELSE NoOid

\* find_mibvar: the key of the MIBVar, or NoOid
find_mibvar(full_oid, mib) == MibGet(mib, strip_full_oid(full_oid))

\* The result of find_mibvar_next: it raised, or the key found (or NoOid)
Found(key) == [raised |-> FALSE, key |-> key]
Raise == [raised |-> TRUE, key |-> NoOid]

\* The loop skipping not-accessible variables: candidate is None, the empty
\* string or a key of mib
RECURSIVE SkipNotAccessible(_, _)
SkipNotAccessible(mib, candidate) ==
    IF candidate # NoOid /\ candidate # <<>>
       /\ mib[candidate].max_access < MIB_MAX_ACCESS_RO
    THEN SkipNotAccessible(mib, mib[candidate].next_oid)
    ELSE candidate

\* The binary search of find_mibvar_next: p_high when the loop ends (counted
\* from 1), or 0 when comparing the None of cmp_oids with 0 raises TypeError
RECURSIVE BinarySearch(_, _, _, _)
RECURSIVE BinaryCheck(_, _, _, _, _)
RECURSIVE BinaryCompare(_, _, _, _, _, _)
BinaryCompare(oids, oid, p_low, p_check, p_high, c) ==
    IF c = CmpNone THEN 0
    ELSE IF c < 0 THEN BinarySearch(oids, oid, p_low, p_check)
    ELSE BinarySearch(oids, oid, p_check, p_high)

BinaryCheck(oids, oid, p_low, p_check, p_high) ==
    BinaryCompare(oids, oid, p_low, p_check, p_high, cmp_oids(oid, oids[p_check + 1]))

BinarySearch(oids, oid, p_low, p_high) ==
    IF p_high - p_low > 1
    THEN BinaryCheck(oids, oid, p_low, p_low + ((p_high - p_low) \div 2), p_high)
    ELSE p_high + 1

\* A candidate is a key of mib (or None), or a MIBVar object, the result of
\* mib.get(): mib[candidate] then raises KeyError in the loop
KeyCandidate(key) == [isobj |-> FALSE, key |-> key]
ObjectCandidate(oids, p) == [isobj |-> TRUE, key |-> oids[p]]

\* The loop over the successors and the final mib.get(candidate)
NextAccessible(mib, candidate) ==
    IF candidate.isobj THEN Raise
    ELSE Found(MibGet(mib, SkipNotAccessible(mib, candidate.key)))

\* The binary search ended (p > 0) or raised (p = 0)
AfterSearch(mib, oids, p) ==
    IF p = 0 THEN Raise ELSE NextAccessible(mib, ObjectCandidate(oids, p))

\* The OID is not registered: below the first, beyond the last, or in between
NotExisted(mib, oids, oid, c_first, c_last) ==
    IF c_first = CmpNone THEN Raise
    ELSE IF c_first < 0 THEN NextAccessible(mib, ObjectCandidate(oids, 1))
    ELSE IF c_last = CmpNone THEN Raise
    ELSE IF c_last > 0 THEN Found(NoOid)
    ELSE AfterSearch(mib, oids, BinarySearch(oids, oid, 0, Len(oids) - 1))

FindNext(mib, oids, oid) ==
    IF oid = NoOid THEN Found(NoOid)
    ELSE IF oid \in DOMAIN mib
    THEN NextAccessible(mib, KeyCandidate(mib[oid].next_oid))
    ELSE NotExisted(mib, oids, oid, cmp_oids(oid, oids[1]), cmp_oids(oid, oids[Len(oids)]))

find_mibvar_next(full_oid, mib, oids) == FindNext(mib, oids, strip_full_oid(full_oid))

(***************************************************************************)
(* Values of MIB variables                                                 *)
(***************************************************************************)
NoneV == [t |-> "none"]
IntV(n) == [t |-> "int", v |-> n]
BoolV(b) == [t |-> "bool", v |-> b]
StrV(x) == [t |-> "str", v |-> x]
\* A float, or None when the attribute is still None
FloatV(x) == IF x = None THEN NoneV ELSE [t |-> "float", v |-> x]
RaisedV == [t |-> "raised"]

\* channels_conf: the labels
Label(ch) ==
    CASE ch = 0 -> <<"M", "A", "I", "N">>
      [] ch = 1 -> <<"R", "E", "G">>
      [] ch = 2 -> <<"B", "A", "T">>
      [] OTHER -> <<"+", "5", "V">>

\* self._handler() of the MIBVar m
HandlerValue(m) ==
    CASE m.handler = "one" -> IntV(1)
      [] m.handler = "SPI_PORT" -> IntV(0)
      [] m.handler = "SPI_DEVICE" -> IntV(0)
      [] m.handler = "devType" -> IntV(1)
      [] m.handler = "devName" ->
            StrV(<<"M", "C", "P", "3", "0", "0", "8", " ", "o", "n", " ", "P", "C", "B">>)
      [] m.handler = "devChanNumber" -> IntV(NumChannels)
      [] m.handler = "valid" -> BoolV(valid)
      [] m.handler = "ts_start" -> FloatV(ts_start)
      [] m.handler = "ts_complete" -> FloatV(ts_complete)
      [] m.handler = "num_of_channels" -> IntV(NumChannels)
      [] m.handler = "get_num" -> IntV(m.ch)
      [] m.handler = "get_label" -> StrV(Label(m.ch))
      [] m.handler = "get_valid" -> BoolV(vec[m.ch].valid)
      [] m.handler = "get_last" ->
            IF vec[m.ch].last = None THEN NoneV ELSE IntV(vec[m.ch].last)
      [] m.handler = "get_ts" -> FloatV(vec[m.ch].ts)
      [] OTHER -> NoneV

\* MIBVar.get_value: round(val * 100) raises TypeError when val is None
get_value(m) ==
    IF m.max_access < MIB_MAX_ACCESS_RO THEN NoneV
    ELSE LET val == HandlerValue(m)
         IN  IF m.syntax = "timeticks" /\ m.timeticks_conv
             THEN IF val.t = "float" THEN IntV(val.v * 100) ELSE RaisedV
             ELSE val

\* str(val)
StrOf(val) ==
    CASE val.t = "int" -> Str(val.v)
      [] val.t = "float" -> Str(val.v) \o <<".", "0">>
      [] val.t = "bool" -> IF val.v THEN <<"T", "r", "u", "e">>
                                     ELSE <<"F", "a", "l", "s", "e">>
      [] val.t = "str" -> val.v
      [] OTHER -> <<"N", "o", "n", "e">>

\* MIB_SYNTAX_NAMES of the syntaxes the registry uses
SynName(syn) ==
    CASE syn = "integer" -> <<"i", "n", "t", "e", "g", "e", "r">>
      [] syn = "string" -> <<"s", "t", "r", "i", "n", "g">>
      [] syn = "objectid" -> <<"o", "b", "j", "e", "c", "t", "i", "d">>
      [] syn = "gauge" -> <<"g", "a", "u", "g", "e">>
      [] OTHER -> <<"t", "i", "m", "e", "t", "i", "c", "k", "s">>

(***************************************************************************)
(* The main loop: control-channel branch                                   *)
(***************************************************************************)
PING == <<"P", "I", "N", "G", NL>>
GET == <<"g", "e", "t", NL>>
GETNEXT == <<"g", "e", "t", "n", "e", "x", "t", NL>>
PONG == <<"P", "O", "N", "G">>
NONE == <<"N", "O", "N", "E">>

\* What the handling of one read of stdin does: the lines written to stdout
\* (without their newlines), whether it raised, and the global oid_next
Answer(out) == [out |-> out, raised |-> FALSE, oid_next |-> oid_next]
Raised == [out |-> <<>>, raised |-> TRUE, oid_next |-> oid_next]

\* The GET request for the OID line
GetValue(mib, oid, key, val) ==
    IF val = RaisedV THEN Raised
    ELSE IF val # NoneV
    THEN Answer(<<oid, SynName(mib[key].syntax), StrOf(val)>>)
    ELSE Answer(<<NONE>>)

GetFound(mib, oid, key) ==
    IF key = NoOid THEN Answer(<<NONE>>)
    ELSE IF mib[key].max_access < MIB_MAX_ACCESS_RO THEN Answer(<<NONE>>)
    ELSE GetValue(mib, oid, key, get_value(mib[key]))

Get(mib, oid) == GetFound(mib, oid, find_mibvar(oid, mib))

\* The GETNEXT request for the OID line.  The warning of the branch for a value
\* of None formats oid_next, a global that only a successful GETNEXT binds:
\* NameError while it is unbound.
GetNextValue(mib, key, val) ==
    IF val = RaisedV THEN Raised
    ELSE IF val # NoneV
    THEN [out |-> <<MIB_BASE \o key, SynName(mib[key].syntax), StrOf(val)>>,
          raised |-> FALSE, oid_next |-> MIB_BASE \o key]
    ELSE IF oid_next = NoOid THEN Raised
    ELSE Answer(<<NONE>>)

GetNextFound(mib, r) ==
    IF r.raised THEN Raised
    ELSE IF r.key = NoOid THEN Answer(<<NONE>>)
    ELSE GetNextValue(mib, r.key, get_value(mib[r.key]))

GetNext(mib, oids, oid) == GetNextFound(mib, find_mibvar_next(oid, mib, oids))

\* A handshake test that wants the read to hold the PING line alone (a variant
\* of IsPing)
IsPing_alone(ls) == ls = <<PING>>

\* first == 'PING\n'
IsPing(ls) == ls[1] = PING

\* lines = sys.stdin.readlines(); first = lines.pop(0); ... : only the first
\* line and, for get and getnext, the second are looked at
StdinRequest(mib, oids, ls) ==
    IF IsPing(ls) THEN Answer(<<PONG>>)
    ELSE IF ls[1] = GET
    THEN IF Len(ls) > 1 THEN Get(mib, RStrip(ls[2], NL)) ELSE Answer(<<NONE>>)
    ELSE IF ls[1] = GETNEXT
    THEN IF Len(ls) > 1 THEN GetNext(mib, oids, RStrip(ls[2], NL)) ELSE Answer(<<NONE>>)
    ELSE Answer(<<NONE>>)

\* The OIDs the clients of the model ask for
Oid(rel) == MIB_BASE \o rel
TestOids ==
    { Oid(<<".", "1", ".", "1", ".", "0">>),                      \* snAdcDevNumber
      <<".", "1", ".", "1", ".", "0">>,                           \* the same, relative
      <<".", "9", ".", "9", ".", "9">>,                           \* not under the base
      Oid(<<".", "9", ".", "9", ".", "9">>),                      \* beyond the last OID
      Oid(<<>>),                                                  \* the base
      Oid(<<".", "1">>),                                          \* snAdc, not accessible
      Oid(<<".", "1", ".", "3", ".", "0">>),                      \* snAdcStatsNumber
      Oid(<<".", "1", ".", "6", ".", "1", ".", "4", ".", "1", ".", "1", ".", "1">>),  \* chanLast
      Oid(<<".", "1", ".", "6", ".", "1", ".", "3", ".", "1", ".", "1", ".", "4">>),  \* chanValid
      Oid(<<".", "1", ".", "6", ".", "1", ".", "5", ".", "1", ".", "1", ".", "1">>),  \* chanTs
      Oid(<<".", "1", ".", "4", ".", "1", ".", "1", ".", "5">>),  \* between two OIDs
      Oid(<<".", "x">>) }                                         \* not a number

\* What one read of stdin may return: a request, two requests at once, the
\* OID line of a request whose first line an earlier read returned, or no line
\* (stdin is not blocking: nothing to read, or end of file)
SETLINE == <<"s", "e", "t", NL>>
Requests ==
    {<<PING>>, <<GET>>, <<GETNEXT>>, <<SETLINE>>}
    \cup {<<GET, Append(o, NL)>> : o \in TestOids}
    \cup {<<GETNEXT, Append(o, NL)>> : o \in TestOids}
Reads ==
    Requests
    \cup { <<PING, PING>>,
           <<Append(Oid(<<".", "1", ".", "1", ".", "0">>), NL)>>,
           <<>> }

\* The replies are written, or the exception ends the process
Respond(r) ==
    IF r.raised
    THEN /\ Exit("crashed")
         /\ stdout' = <<>>
         /\ UNCHANGED oid_next
    ELSE /\ stdout' = r.out
         /\ oid_next' = r.oid_next
         /\ UNCHANGED <<status, cleanups, pc>>

\* The line written to sys.stderr with the reply r to the lines ls
Diagnostic(ls, r) ==
    IF r.raised THEN Uncaught("crashed")
    ELSE IF r.out = <<PONG>> THEN <<"INFO">>
    ELSE IF r.out # <<NONE>> THEN <<>>
    ELSE IF ls[1] \in {GET, GETNEXT} THEN <<"WARN">>
    ELSE <<"ERROR">>

\* if not lines: sys.stderr.write('ERROR: Catched event on stdin but no lines
\* read'); continue
NoLines ==
    /\ stdout' = <<>>
    /\ stderr' = <<"ERROR">>
    /\ UNCHANGED <<status, cleanups, pc, oid_next>>

\* Replies to the lines ls and writes the diagnostic
Request(ls, r) ==
    /\ Respond(r)
    /\ stderr' = Diagnostic(ls, r)

\* stdin is reported readable and the main loop reads the lines it holds
HandleStdin ==
    /\ status = "running"
    /\ pc["reactor"] = "poll"
    /\ events < MaxEvents
    /\ reads < MaxReads
    /\ events' = events + 1
    /\ reads' = reads + 1
    /\ \E ls \in Reads :
          /\ lines' = ls
          /\ IF ls = <<>> THEN NoLines
             ELSE Request(ls, StdinRequest(mib_init.mib, mib_init.oids, ls))
    /\ step' = "stdin"
    /\ UNCHANGED <<clVars, now, mi, mj, ret, exc, ghostVars, idleTicks, sendto,
                   calls, adc, pipe, signums, data, sent, statVars>>
    /\ UNCHANGED fnVars

Measure ==
    \/ MeasureAcquire("reactor")
    \/ MeasureBegin("reactor")
    \/ MeasureRead("reactor")
    \/ MeasureAverage("reactor")
    \/ MeasureFinally("reactor")

Next ==
    \/ SignalArrive
    \/ ReadSignals
    \/ ProcessSignal
    \/ Measure
    \/ MeasureReturn
    \/ HandleSocket
    \/ RecvError

Spec == Init /\ [][Next]_vars

\* The server with a control channel on which requests arrive, and no datagrams
NextAgent ==
    \/ SignalArrive
    \/ ReadSignals
    \/ ProcessSignal
    \/ Measure
    \/ MeasureReturn
    \/ HandleStdin

SpecAgent == Init /\ [][NextAgent]_vars

(***************************************************************************)
(* The module's functions applied on their own: find_mibvar_next(full_oid, *)
(* mib, oids) on a registry and an OID, cmp_oids(oid1, oid2) on OIDs       *)
(***************************************************************************)
\* The variables of a registry without the base and the snAdc node: its
\* smallest OID is .1.1.0, so that OIDs below the first registered one exist
SubVars == SubSeq(MibVars, 3, Len(MibVars))
SubRegistry == Registry(SubVars, SortOids(Keys(SubVars)))

\* The registries find_mibvar_next is applied to: the one mib_init builds,
\* and the one without the two leading nodes
FnRegistries == <<mib_init, SubRegistry>>

\* The OIDs find_mibvar_next is applied to
LookupOids ==
    TestOids
    \cup { Oid(<<".", "0", ".", "5">>),                  \* below .1.1.0
           Oid(<<".", "0">>),
           Oid(<<".", "1", ".", "1">>),                  \* a prefix of .1.1.0
           Oid(<<".", "1", ".", "6", ".", "1", ".", "5", ".", "1", ".", "1", ".", "4">>) }  \* the last OID

FindNextIn(reg, full_oid) == find_mibvar_next(full_oid, reg.mib, reg.oids)

\* find_mibvar_next(o, mib, oids) is called on the r-th registry (a run of
\* SpecFn applies one function once)
CallFindNext ==
    /\ call = <<>>
    /\ \E r \in 1..Len(FnRegistries), o \in LookupOids :
          /\ call' = <<"find_mibvar_next", r, o>>
          /\ result' = FindNextIn(FnRegistries[r], o)
    /\ UNCHANGED <<clVars, now, callVars, ghostVars, obsVars, calls, envVars, statVars,
                   stderr>>

\* The OIDs cmp_oids is applied to, as sequences of numbers: every sequence of
\* 1..MaxOidLen components, each a number of one digit or of two
MaxOidLen == 2
OidComponents == {2, 10}
NumSeqs == UNION {[1..n -> OidComponents] : n \in 1..MaxOidLen}

\* The text of an OID: a dot and the decimal digits of each component
RECURSIVE OidStr(_)
OidStr(ns) ==
    IF ns = <<>> THEN <<>>
    ELSE OidStr(SubSeq(ns, 1, Len(ns) - 1)) \o <<".">> \o Str(ns[Len(ns)])

\* cmp_oids is called on the pairs of three OIDs
CmpResults(x, y, z) ==
    [ab |-> cmp_oids(x, y), ba |-> cmp_oids(y, x),
     bc |-> cmp_oids(y, z), ac |-> cmp_oids(x, z)]

CallCmp ==
    /\ call = <<>>
    /\ \E a, b, c \in NumSeqs :
          /\ call' = <<"cmp_oids", a, b, c>>
          /\ result' = CmpResults(OidStr(a), OidStr(b), OidStr(c))
    /\ UNCHANGED <<clVars, now, callVars, ghostVars, obsVars, calls, envVars, statVars,
                   stderr>>

\* OIDs as text, some with a component that is not a number: at the end,
\* at the beginning, in the middle of the component
TextOids ==
    { <<".", "1">>, <<".", "2">>, <<".", "1", ".", "2">>,
      <<".", "1", ".", "x">>, <<".", "x">>, <<".", "x", ".", "1">>,
      <<".", "1", ".", "2", "x">>, <<".", "2", ".", "1", ".", "x">> }

\* cmp_oids is called on two OIDs given as text
CallCmpText ==
    /\ call = <<>>
    /\ \E x \in TextOids, y \in TextOids :
          /\ call' = <<"cmp_oids text", x, y>>
          /\ result' = cmp_oids(x, y)
    /\ UNCHANGED <<clVars, now, callVars, ghostVars, obsVars, calls, envVars, statVars,
                   stderr>>

\* The values a channel's ADC object returns in the calls of add_acc, and the
\* factors avg_acc is given, as fractions
MaxSamples == 3
SampleValues == {0, 2, 3, 10, 20, 30}
SampleSeqs == UNION {[1..n -> SampleValues] : n \in 1..MaxSamples}
Factors == {<<1, 1>>, <<3, 2>>}

\* The channel c after add_acc read the values vs one after the other
RECURSIVE Accumulate(_, _)
Accumulate(c, vs) ==
    IF vs = <<>> THEN c
    ELSE add_acc(Accumulate(c, SubSeq(vs, 1, Len(vs) - 1)), vs[Len(vs)])

\* What a cycle does with one channel: reset_acc, add_acc for every sample,
\* avg_acc
CallAvg ==
    /\ call = <<>>
    /\ \E vs \in SampleSeqs, f \in Factors :
          /\ call' = <<"avg_acc", vs, f>>
          /\ result' = avg_acc_factor(Accumulate(reset_acc(NewChannel), vs),
                                      f[1], f[2], now + 1)
    /\ UNCHANGED <<clVars, now, callVars, ghostVars, obsVars, calls, envVars, statVars,
                   stderr>>

NextFn ==
    \/ CallFindNext
    \/ CallCmp
    \/ CallCmpText
    \/ CallAvg

SpecFn == Init /\ [][NextFn]_vars

(***************************************************************************)
(* The signal branch alone, for a process that was sent a burst of signals *)
(* between signal.set_wakeup_fd() and its first poll(): the wakeup pipe    *)
(* holds their numbers, oldest first, when the main loop starts.           *)
(***************************************************************************)
MaxBurst == 9

\* The bursts: MaxBurst signals, SIGHUP but for two of them at most
Bursts ==
    { [i \in 1..MaxBurst |-> IF i = p THEN s ELSE IF i = q THEN t ELSE SIGHUP] :
          p \in 1..MaxBurst, q \in 1..MaxBurst, s \in Signals, t \in Signals }

InitBurst ==
    /\ pipe \in Bursts
    /\ Constructed

NextBurst ==
    \/ ReadSignals
    \/ ProcessSignal
    \/ Measure
    \/ MeasureReturn

SpecBurst == InitBurst /\ [][NextBurst]_vars

\* The main loop is one thread that never waits but in poller.poll(), and the
\* poller is level-triggered: poll() returns while the pipe holds unread bytes;
\* time.sleep() and the ADC reads of a cycle return
FairBurst == SpecBurst /\ WF_vars(NextBurst)

(***************************************************************************)
(* Properties                                                              *)
(***************************************************************************)
\* The number a big-endian byte sequence stands for
RECURSIVE FromBE(_)
FromBE(b) == IF b = <<>> THEN 0 ELSE 256 * FromBE(SubSeq(b, 1, Len(b) - 1)) + b[Len(b)]

\* A well-formed GETLAST request: a 4-byte header of version 1 and command 1,
\* and no body
IsGetlast(d) == Len(d) = 4 /\ d[1] = 1 /\ d[4] = 1

\* The sizes of the RETLAST layout: header, channel count, valid flag, two
\* 8-byte times, and per channel an index, a flag, a 4-byte value and a time
RetlastFixed == 4 + 1 + 1 + 8 + 8
RetlastRecord == 1 + 1 + 4 + 8

\* A well-formed RETLAST reply for the configured channels
IsRetlast(p) ==
    /\ Len(p) = RetlastFixed + NumChannels * RetlastRecord
    /\ p[1] = 1
    /\ p[4] = 2
    /\ p[5] = NumChannels

\* The reactor read a well-formed GETLAST in the iteration just taken and the
\* network accepted what it sent, if it sent
AnsweredGetlast == step = "socket" /\ IsGetlast(data) /\ sendto # "oserror"

\* The fields of a RETLAST reply, read back by the layout
DecodeRecord(p, off) ==
    [ch    |-> p[off + 1],
     valid |-> p[off + 2],
     last  |-> FromBE(SubSeq(p, off + 3, off + 6)),
     ts    |-> FromBE(SubSeq(p, off + 7, off + 14))]

Decode(p) ==
    [count       |-> p[5],
     valid       |-> p[6],
     ts_start    |-> FromBE(SubSeq(p, 7, 14)),
     ts_complete |-> FromBE(SubSeq(p, 15, 22)),
     records     |-> [i \in 1..NumChannels |->
                         DecodeRecord(p, RetlastFixed + (i - 1) * RetlastRecord)]]

\* The snapshot as a reply is to carry it: one record per channel, in
\* ascending index order
Snapshot ==
    [count       |-> NumChannels,
     valid       |-> Bool2Int(valid),
     ts_start    |-> ts_start,
     ts_complete |-> ts_complete,
     records     |-> [i \in 1..NumChannels |->
                         [ch    |-> i - 1,
                          valid |-> Bool2Int(last_values[i - 1][1]),
                          last  |-> last_values[i - 1][2],
                          ts    |-> last_values[i - 1][3]]]]

\* C1: every well-formed GETLAST is answered with exactly one well-formed
\* RETLAST reply and the server keeps running, whatever the snapshot holds,
\* also before the first measurement cycle has completed.
C1_GetlastAnswered ==
    AnsweredGetlast =>
        /\ status = "running"
        /\ Len(sent) = 1
        /\ IsRetlast(sent[1])

\* The step is a step of caller c whose measure() call finds the lock held
BusyCall(c) == pc[c] = "acquire" /\ lock /\ pc'[c] # pc[c]

\* C2: a measure() call made while the lock is held returns the busy result in
\* that step and leaves the snapshot (valid flag, timestamps, per-channel
\* results) and the accumulators as they were.
C2_BusyLeavesSnapshot ==
    [][\A c \in Callers :
          BusyCall(c) =>
              /\ pc'[c] = "ret"
              /\ ret'[c] = -1
              /\ UNCHANGED <<valid, ts_start, ts_complete, last_values, vec, lock>>]_vars

\* A caller has been turned away with the busy result while a cycle of another
\* caller is in progress
C2_Witness ==
    \E c, d \in Callers : c # d /\ pc[c] = "ret" /\ ret[c] = -1 /\ InCycle(d)

\* C3: at most one caller is between the acquisition and the release of the
\* lock, that is, inside a measurement cycle.
C3_OneCycleAtATime == Cardinality({c \in Callers : InCycle(c)}) <= 1

\* Two callers contended: one is in its read loop and the other is about to
\* try the lock
C3_Witness ==
    \E c, d \in Callers : c # d /\ pc[c] = "read" /\ lock /\ pc[d] = "acquire"

\* C4: what a reader of the snapshot (the GETLAST handler, the control channel
\* handler) sees of the per-channel mapping comes from one cycle: never some
\* channels from the newest cycle and others from an older one; and the
\* mapping agrees with the channels' own fields, which the control channel
\* handler reads.
C4_ReadersSeeOneCycle ==
    step \in {"socket", "stdin"} =>
        /\ \A a, b \in Channels : lvCycle[a] = lvCycle[b]
        /\ \A a \in Channels : last_values[a] = get_lastprop(vec[a])

\* A GETLAST was answered after the second cycle stored its results
C4_Witness ==
    /\ AnsweredGetlast
    /\ Len(sent) = 1
    /\ cycle = 2
    /\ \A a \in Channels : lvCycle[a] = 2

\* C5: a tick that fires while a cycle is in progress is skipped and starts no
\* cycle later: every cycle started answers a tick delivered while no cycle
\* was in progress.
C5_BusyTickSkipped == cycle <= idleTicks

\* C6: after a failed converter read the server does not go on serving: once
\* the cycle is over the process has terminated.
C6_ReadFailureTerminates ==
    (failures > 0 /\ pc["reactor"] = "poll") => status # "running"

\* C7: the reply to a GETLAST decodes by the layout to exactly the snapshot at
\* the time of the reply: channel count, valid flag, both timestamps, and one
\* record per channel in ascending index order.
C7_RetlastRoundTrip ==
    AnsweredGetlast =>
        /\ Len(sent) = 1
        /\ IsRetlast(sent[1])
        /\ Decode(sent[1]) = Snapshot

\* Every RETLAST reply that is sent decodes to the snapshot
RetlastSentRoundTrip ==
    (step = "socket" /\ sent # <<>>) =>
        IsRetlast(sent[1]) /\ Decode(sent[1]) = Snapshot

\* The step reads a datagram from the socket
SocketStep == step' = "socket" /\ events' = events + 1 /\ pipe' = pipe

\* The kinds of malformed datagram with a complete header
BadVer(d) == d[1] # 1
BadLen(d) == d[1] = 1 /\ d[4] = 1 /\ Len(d) > 4
BadCmd(d) == d[1] = 1 /\ d[4] # 1
Malformed(d) == Len(d) >= 4 /\ (BadVer(d) \/ BadLen(d) \/ BadCmd(d))

\* C8: a malformed datagram with a complete header is answered with nothing;
\* the total and the bad counters go up by one, as does the one sub-counter of
\* its kind (version, length, command) and no other; the valid counter and the
\* outgoing counters stay.
C8_MalformedCounted ==
    [][(SocketStep /\ Malformed(data')) =>
          /\ sent' = <<>>
          /\ in_pkts_total' = in_pkts_total + 1
          /\ in_pkts_bad' = in_pkts_bad + 1
          /\ in_pkts_bad_ver' = in_pkts_bad_ver + Bool2Int(BadVer(data'))
          /\ in_pkts_bad_len' = in_pkts_bad_len + Bool2Int(BadLen(data'))
          /\ in_pkts_bad_cmd' = in_pkts_bad_cmd + Bool2Int(BadCmd(data'))
          /\ (in_pkts_bad_ver' + in_pkts_bad_len' + in_pkts_bad_cmd')
                = (in_pkts_bad_ver + in_pkts_bad_len + in_pkts_bad_cmd) + 1
          /\ UNCHANGED <<in_pkts_valid, out_pkts_total, out_pkts_success,
                         out_pkts_failed>>]_vars

\* A datagram of a wrong version and an unsupported command was counted
C8_Witness ==
    /\ step = "socket"
    /\ data = <<2, 1, 0, 9>>
    /\ sent = <<>>
    /\ in_pkts_total = 1
    /\ in_pkts_bad = 1
    /\ in_pkts_bad_ver = 1

\* The OID line of snAdcDevNumber, relative and absolute
DevNumber == <<".", "1", ".", "1", ".", "0">>
INTEGER == <<"i", "n", "t", "e", "g", "e", "r">>
GetRelative == <<GET, Append(DevNumber, NL)>>
GetAbsolute == <<GET, Append(MIB_BASE \o DevNumber, NL)>>

\* C9 as stated: a get for .1.1.0 is answered with the three lines .1.1.0,
\* integer and 1.
C9_GetRelativeOid ==
    (step = "stdin" /\ lines = GetRelative) =>
        stdout = <<DevNumber, INTEGER, <<"1">>>>

\* C9: a get for the absolute OID .1.3.6.1.3.999.1.1.0 is answered with three
\* lines: that OID as it was sent, integer and 1; a get for the relative OID
\* .1.1.0 is answered with NONE.
C9_GetAbsoluteOid ==
    /\ (step = "stdin" /\ lines = GetAbsolute) =>
           stdout = <<MIB_BASE \o DevNumber, INTEGER, <<"1">>>>
    /\ (step = "stdin" /\ lines = GetRelative) => stdout = <<NONE>>

\* The get for the absolute OID was answered
C9_Witness ==
    /\ step = "stdin"
    /\ lines = GetAbsolute
    /\ Len(stdout) = 3
    /\ status = "running"

\* The step reads lines from the control channel
StdinStep == reads' = reads + 1

\* The OID line names no registered variable, or one that is not accessible
RegisteredOids == {MIB_BASE \o MibVars[n].oid : n \in 1..Len(MibVars)}
AccessibleOids ==
    {MIB_BASE \o MibVars[n].oid :
        n \in {m \in 1..Len(MibVars) : MibVars[m].max_access >= 2}}
Unanswerable(line) ==
    \A o \in AccessibleOids : line # Append(o, NL)

\* The state of the server, apart from what the iteration read and wrote
ServerState ==
    <<clVars, statVars, status, cleanups, oid_next, pc, pipe, signums, now,
      ghostVars, idleTicks>>

\* The requests with a fixed one-line reply
NoneRequest(ls) ==
    /\ ls # <<>>
    /\ \/ ls[1] = GET /\ Len(ls) > 1 /\ Unanswerable(ls[2])
       \/ ls[1] \in {GET, GETNEXT} /\ Len(ls) = 1
       \/ ls[1] \notin {PING, GET, GETNEXT}

\* C10: PING is answered with the one line PONG; a get for an OID that is not
\* registered or not accessible, a get or getnext without an OID line, and
\* any other first line are answered with the one line NONE; none of them
\* changes the state of the server.
C10_HandshakeAndNone ==
    [][StdinStep =>
          /\ (lines' # <<>> /\ lines'[1] = PING) => stdout' = <<PONG>> /\ UNCHANGED ServerState
          /\ NoneRequest(lines') => stdout' = <<NONE>> /\ UNCHANGED ServerState]_vars

\* A get for an OID that is not registered was answered with NONE
C10_Witness ==
    /\ step = "stdin"
    /\ lines = <<GET, Append(<<".", "9", ".", "9", ".", "9">>, NL)>>
    /\ stdout = <<NONE>>
    /\ status = "running"

\* C11: the OID a successful getnext returns is absolute, and a get for
\* exactly that OID, issued in the same server state, is answered with the
\* same three lines: that OID, the same syntax name, the same value.
C11_GetnextThenGet ==
    (step = "stdin" /\ lines # <<>> /\ lines[1] = GETNEXT /\ Len(stdout) = 3) =>
        /\ StartsWith(stdout[1], MIB_BASE)
        /\ StdinRequest(mib_init.mib, mib_init.oids,
                        <<GET, Append(stdout[1], NL)>>).out = stdout

\* The relative OID of an OID line under the base (the line without its
\* newline and without the base)
UnderBase(line) == StartsWith(line, MIB_BASE) /\ line[Len(line)] = NL
Relative(line) == SubSeq(line, Len(MIB_BASE) + 1, Len(line) - 1)

\* The registered relative OIDs in ascending order, and those of them that
\* are accessible
Ordered == mib_init.oids
IsRegistered(rel) == \E n \in 1..Len(MibVars) : MibVars[n].oid = rel
IsAccessible(rel) ==
    \E n \in 1..Len(MibVars) : MibVars[n].oid = rel /\ MibVars[n].max_access >= 2

\* rel lies strictly between the smallest and the largest registered OID
StrictlyBetween(rel) ==
    /\ cmp_oids(rel, Ordered[1]) = 1
    /\ cmp_oids(rel, Ordered[Len(Ordered)]) = -1

\* The positions of the accessible OIDs greater than rel
AccessibleAfter(rel) ==
    {k \in 1..Len(Ordered) : cmp_oids(rel, Ordered[k]) = -1 /\ IsAccessible(Ordered[k])}

\* The first accessible OID greater than rel
FirstAccessibleAfter(rel) ==
    Ordered[CHOOSE k \in AccessibleAfter(rel) : \A m \in AccessibleAfter(rel) : k <= m]

\* C12: a getnext for an OID that is not registered and lies strictly between
\* the smallest and the largest registered OID does not fail: the server
\* keeps running and answers with the first accessible variable whose OID is
\* greater, or with NONE if there is none or it has no value.
C12_GetnextBetween ==
    (/\ step = "stdin"
     /\ Len(lines) > 1
     /\ lines[1] = GETNEXT
     /\ UnderBase(lines[2])
     /\ ~IsRegistered(Relative(lines[2]))
     /\ StrictlyBetween(Relative(lines[2]))) =>
        /\ status = "running"
        /\ \/ stdout = <<NONE>>
           \/ /\ Len(stdout) = 3
              /\ AccessibleAfter(Relative(lines[2])) # {}
              /\ stdout[1] = MIB_BASE \o FirstAccessibleAfter(Relative(lines[2]))

\* The registry and the relative OID of a find_mibvar_next call
CalledFindNext == call # <<>> /\ call[1] = "find_mibvar_next"
CallOids == FnRegistries[call[2]].oids
CallMib == FnRegistries[call[2]].mib
CallRel == SubSeq(call[3], Len(MIB_BASE) + 1, Len(call[3]))

\* The accessible OIDs of the called registry, by position in sorted order
CallAccessible == {k \in 1..Len(CallOids) : CallMib[CallOids[k]].max_access >= 2}

\* C13: find_mibvar_next called with an OID smaller than every registered OID
\* returns the first accessible variable in sorted order; called with an OID
\* larger than every registered OID it returns no variable.
C13_BelowFirstBeyondLast ==
    (CalledFindNext /\ StartsWith(call[3], MIB_BASE)) =>
        /\ cmp_oids(CallRel, CallOids[1]) = -1 =>
              /\ ~result.raised
              /\ \E k \in CallAccessible :
                    /\ result.key = CallOids[k]
                    /\ \A m \in CallAccessible : k <= m
        /\ cmp_oids(CallRel, CallOids[Len(CallOids)]) = 1 =>
              /\ ~result.raised
              /\ result.key = NoOid

\* The half of C13 for the OIDs larger than every registered OID
BeyondLastExhausted ==
    (CalledFindNext /\ StartsWith(call[3], MIB_BASE)
     /\ cmp_oids(CallRel, CallOids[Len(CallOids)]) = 1) =>
        (~result.raised /\ result.key = NoOid)

\* With the registry mib_init builds, no OID under the base is smaller than
\* every registered OID: the base itself is registered and compares as 0
NothingBelowBase ==
    (CalledFindNext /\ StartsWith(call[3], MIB_BASE) /\ call[2] = 1) =>
        cmp_oids(CallRel, CallOids[1]) # -1

\* The registered variable of a relative OID, and whether its handler returns
\* None in the current state
VarOf(rel) == MibVars[CHOOSE n \in 1..Len(MibVars) : MibVars[n].oid = rel]
YieldsNoValue(rel) == HandlerValue(VarOf(rel)) = NoneV

\* The variable a get for the OID line resolves to, or a getnext for a
\* registered OID line, has no value
GetOfNoValue(ls) ==
    /\ Len(ls) > 1
    /\ ls[1] = GET
    /\ UnderBase(ls[2])
    /\ IsAccessible(Relative(ls[2]))
    /\ YieldsNoValue(Relative(ls[2]))
GetNextOfNoValue(ls) ==
    /\ Len(ls) > 1
    /\ ls[1] = GETNEXT
    /\ UnderBase(ls[2])
    /\ IsRegistered(Relative(ls[2]))
    /\ AccessibleAfter(Relative(ls[2])) # {}
    /\ YieldsNoValue(FirstAccessibleAfter(Relative(ls[2])))

\* C14: a get or getnext whose target variable's handler yields no value is
\* answered with the one line NONE and the server keeps running.
C14_NoValueIsNone ==
    (step = "stdin" /\ (GetOfNoValue(lines) \/ GetNextOfNoValue(lines))) =>
        (stdout = <<NONE>> /\ status = "running")

\* The half of C14 for a get of a variable that is not converted to time
\* ticks (a channel's last value)
GetOfNoGaugeIsNone ==
    (step = "stdin" /\ GetOfNoValue(lines)
     /\ ~VarOf(Relative(lines[2])).timeticks_conv) =>
        (stdout = <<NONE>> /\ status = "running")

\* The OIDs met by following the successor links from oid, at most n of them
RECURSIVE WalkFrom(_, _)
WalkFrom(oid, n) ==
    IF oid = NoOid \/ n = 0 THEN <<>>
    ELSE <<oid>> \o WalkFrom(mib_init.mib[oid].next_oid, n - 1)

\* The sorted OID sequence is strictly increasing under the comparator
StrictlyIncreasing ==
    \A k \in 1..(Len(Ordered) - 1) : cmp_oids(Ordered[k], Ordered[k + 1]) = -1

\* The sorted OID sequence holds every registered OID exactly once
HoldsEveryOid ==
    /\ Len(Ordered) = Len(MibVars)
    /\ \A n \in 1..Len(MibVars) :
          Cardinality({k \in 1..Len(Ordered) : Ordered[k] = MibVars[n].oid}) = 1

\* C15: in the registry mib_init builds and the control channel is served
\* from, the sorted OID sequence is strictly increasing under cmp_oids, and
\* following the successor links from the first OID visits every registered
\* OID exactly once, in ascending order, ending at the last OID, whose
\* successor is None.
C15_SuccessorsFollowOrder ==
    step = "stdin" =>
        /\ StrictlyIncreasing
        /\ HoldsEveryOid
        /\ WalkFrom(Ordered[1], Len(Ordered) + 1) = Ordered
        /\ mib_init.mib[Ordered[Len(Ordered)]].next_oid = NoOid

\* A getnext was answered by walking the links from a registered OID over two
\* nodes that are not accessible
C15_Witness ==
    /\ step = "stdin"
    /\ lines = <<GETNEXT, Append(Oid(<<".", "1", ".", "3", ".", "0">>), NL)>>
    /\ Len(stdout) = 3
    /\ stdout[1] = MIB_BASE \o Ordered[14]

\* The OIDs of a cmp_oids call, as sequences of numbers
CalledCmp == call # <<>> /\ call[1] = "cmp_oids"

\* Component-wise comparison of two sequences of numbers: the first pair of
\* unequal components decides; if there is none the shorter sequence, a
\* strict prefix of the longer, is the smaller
RECURSIVE NumCmpFrom(_, _, _)
NumCmpFrom(a, b, i) ==
    IF i > Len(a) /\ i > Len(b) THEN 0
    ELSE IF i > Len(a) THEN -1
    ELSE IF i > Len(b) THEN 1
    ELSE IF a[i] < b[i] THEN -1
    ELSE IF a[i] > b[i] THEN 1
    ELSE NumCmpFrom(a, b, i + 1)
NumCmp(a, b) == NumCmpFrom(a, b, 1)

IsStrictPrefix(a, b) == Len(a) < Len(b) /\ SubSeq(b, 1, Len(a)) = a

\* C16: on well-formed OIDs cmp_oids agrees with the component-wise numeric
\* comparison and is a strict order: if a < b then b < a is false; a < b and
\* b < c imply a < c; a strict prefix is smaller than its extension; and two
\* different OIDs are never equal.
C16_ComparatorIsOrder ==
    CalledCmp =>
        /\ result.ab = NumCmp(call[2], call[3])
        /\ result.ab = -1 => result.ba # -1
        /\ (result.ab = -1 /\ result.bc = -1) => result.ac = -1
        /\ IsStrictPrefix(call[2], call[3]) => result.ab = -1
        /\ call[2] # call[3] => (result.ab = -1 \/ result.ba = -1)

\* cmp_oids was applied to .2, .10 and .10.2, an ascending chain in which the
\* text order of the components differs from the numeric one
C16_Witness ==
    /\ CalledCmp
    /\ call[2] = <<2>>
    /\ call[3] = <<10>>
    /\ call[4] = <<10, 2>>
    /\ result = [ab |-> -1, ba |-> 1, bc |-> -1, ac |-> -1]

\* The main loop takes a termination signal from the signal numbers it read
TerminationStep ==
    /\ pc["reactor"] = "signals"
    /\ signums # <<>>
    /\ Head(signums) \in {SIGINT, SIGTERM}
    /\ signums' = Tail(signums)

\* The shutdown sequence: stop the interval timer, release the channel
\* sources, close the multiplexer, close the descriptors
Shutdown ==
    <<"setitimer", "destroy", "poller.close", "close pipe_r", "close pipe_w",
      "sock.close">>

\* C17: on SIGINT or SIGTERM the shutdown sequence runs once, in order, and
\* the process exits with status 0; nothing is processed afterwards, and the
\* process exits with status 0 in no other way.
C17_OrderlyShutdown ==
    [][/\ status = "running"
       /\ TerminationStep => (cleanups = <<>> /\ cleanups' = Shutdown /\ status' = "exit0")
       /\ status' = "exit0" => TerminationStep]_vars

\* The process exited on SIGINT with an alarm, read from the pipe together
\* with it, left unprocessed
C17_Witness ==
    /\ status = "exit0"
    /\ cleanups = Shutdown
    /\ signums = <<SIGALRM>>
    /\ cycle = 0

\* A socket call failed in the iteration just taken: recvfrom, or the sendto of
\* a reply
SocketFailed == step = "recverr" \/ (step = "socket" /\ sendto = "oserror")

\* C18: after a socket failure on send or receive the shutdown sequence has
\* run to completion and the process has exited with a non-zero status.
C18_SocketFailureShutdown ==
    SocketFailed =>
        /\ cleanups = Shutdown
        /\ status \notin {"running", "exit0"}

\* C19: the lock is held only while a caller is inside its cycle: it is
\* released when the call ends, after a normal cycle and after a failed read
\* alike, and the next measure() of the main loop finds it free.
C19_LockReleased ==
    /\ lock <=> \E c \in Callers : InCycle(c)
    /\ pc["reactor"] = "acquire" => ~lock

\* The main loop acquired the lock again after a cycle whose read failed
C19_Witness ==
    /\ pc["reactor"] = "begin"
    /\ lock
    /\ failures = 1
    /\ cycle = 1

\* C20: while the server runs and the overall valid flag is true, every
\* channel is valid and its published result was stored by the cycle that set
\* the flag and the cycle timestamps, also after a cycle in which a read
\* failed.
C20_ValidMeansComplete ==
    (valid /\ status = "running") =>
        \A ch \in Channels :
            /\ vec[ch].valid
            /\ last_values[ch][1]
            /\ lvCycle[ch] = snapCycle

\* The half of C20 for runs without a failed read
ValidMeansCompleteWithoutFailure ==
    (valid /\ status = "running" /\ failures = 0) =>
        \A ch \in Channels :
            vec[ch].valid /\ last_values[ch][1] /\ lvCycle[ch] = snapCycle

(***************************************************************************)
(* The wakeup pipe                                                         *)
(***************************************************************************)
\* The step that handles readiness of the wakeup pipe: os.read() and unpack
ReadStep == pc["reactor"] = "poll" /\ pc'["reactor"] = "signals"

\* The notifications not yet dispatched, oldest first
Pending == signums \o pipe

\* C21 as stated: each time the reactor handles readiness of the wakeup pipe it
\* reads every notification then pending, whatever their number, and leaves the
\* pipe empty.
C21_ReadsAllPending == [][ReadStep => signums' = pipe /\ pipe' = <<>>]_vars

\* C21, amended: handling readiness of the wakeup pipe reads the oldest
\* SIG_WAKEUP_FD_RLEN notifications at most and leaves the others in the pipe;
\* the reactor does not wait while the pipe holds one: a pipe that is not
\* empty is read again, until it is empty or the process has shut down.
C21_ReadsUpToLimit ==
    /\ [][ReadStep =>
            /\ signums' \o pipe' = pipe
            /\ Len(signums') = IF Len(pipe) > SIG_WAKEUP_FD_RLEN
                               THEN SIG_WAKEUP_FD_RLEN ELSE Len(pipe)]_vars
    /\ (pipe # <<>>) ~> (pipe = <<>> \/ status # "running")

\* A read left notifications in the pipe, and they were read by the next one
C21_Witness ==
    /\ status = "running"
    /\ pipe = <<>>
    /\ step = "signal"
    /\ Len(signums) = MaxBurst - SIG_WAKEUP_FD_RLEN
    /\ pc["reactor"] = "signals"

\* The effect of dispatching the signal number s
Dispatched(s) ==
    IF s = SIGALRM THEN pc'["reactor"] = "acquire" /\ status' = status
    ELSE IF s \in {SIGINT, SIGTERM} THEN status' = "exit0"
    ELSE status' = status /\ pc'["reactor"] \in {"poll", "signals"}

\* What a step of a running process does to the notifications: nothing, or one
\* is written behind the others, or the oldest ones are read once the batch
\* read before is finished, or the oldest one read is dispatched
NotificationStep ==
    \/ UNCHANGED <<pipe, signums>>
    \/ \E s \in Signals : pipe' = Append(pipe, s) /\ signums' = signums
    \/ signums = <<>> /\ signums' # <<>> /\ signums' \o pipe' = pipe
    \/ signums # <<>> /\ signums' = Tail(signums) /\ pipe' = pipe
                      /\ Dispatched(Head(signums))

\* C22: no notification is dropped: the numbers written to the wakeup pipe are
\* read and dispatched once each, in the order written (every step keeps the
\* notifications not yet dispatched in order and removes only the oldest, by
\* dispatching it), and each of them is dispatched eventually unless the
\* process has shut down before.
C22_EveryNotificationDispatched ==
    /\ [][status = "running" => NotificationStep]_vars
    /\ \A n \in 1..MaxBurst :
          (Len(Pending) = n) ~> (Len(Pending) < n \/ status # "running")

\* All the notifications of a burst longer than one read were dispatched
C22_Witness ==
    /\ status = "running"
    /\ Pending = <<>>
    /\ step = "signal"
    /\ cycle > 0
    /\ pc["reactor"] = "poll"

(***************************************************************************)
(* Reads that find no data                                                 *)
(***************************************************************************)
\* The step of the main loop that reads the socket or stdin and gets nothing:
\* a datagram of no bytes, or no line (the delivery of a signal is not such a
\* step: it writes to the pipe)
NoDataStep ==
    /\ pc["reactor"] = "poll"
    /\ events' = events + 1
    /\ pipe' = pipe
    /\ \/ step' = "socket" /\ data' = <<>>
       \/ step' = "stdin" /\ lines' = <<>>

\* C23: a read of the datagram socket or of the control channel that finds no
\* data is silent: the server keeps running, sends no reply, writes no
\* diagnostic and changes neither a counter nor any other state of the server.
C23_NoDataIsSilent ==
    [][NoDataStep =>
          /\ status' = "running"
          /\ sent' = <<>> /\ stdout' = <<>>
          /\ stderr' = <<>>
          /\ UNCHANGED <<statVars, clVars, oid_next, signums>>]_vars

(***************************************************************************)
(* Requests and reads of the control channel                               *)
(***************************************************************************)
\* The requests the lines ls hold when read from the first line on: PING is a
\* request of one line, get and getnext are requests of two lines, any other
\* line is a request of its own
RECURSIVE CountRequests(_)
CountRequests(ls) ==
    IF ls = <<>> THEN 0
    ELSE IF ls[1] \in {GET, GETNEXT} /\ Len(ls) > 1
    THEN 1 + CountRequests(SubSeq(ls, 3, Len(ls)))
    ELSE 1 + CountRequests(Tail(ls))

\* The replies written: a reply is the line PONG, the line NONE, or three
\* lines of which the first is an OID
RECURSIVE CountReplies(_)
CountReplies(out) ==
    IF out = <<>> THEN 0
    ELSE IF out[1] \in {PONG, NONE} THEN 1 + CountReplies(Tail(out))
    ELSE 1 + CountReplies(SubSeq(out, 4, Len(out)))

\* C24: every request of the control channel gets one response, however the
\* requests are split over the reads: a read that delivers several complete
\* requests is answered with as many replies.
C24_OneReplyPerRequest ==
    (step = "stdin" /\ status = "running" /\ lines # <<>>
        /\ (lines[1] \in {GET, GETNEXT} => Len(lines) > 1))
    => CountReplies(stdout) = CountRequests(lines)

\* The split request: the command line of a get or getnext that a read
\* delivers without its OID line is not answered before the OID line has been
\* read.
SplitRequestWaits ==
    (step = "stdin" /\ status = "running" /\ lines \in {<<GET>>, <<GETNEXT>>})
    => stdout = <<>>

(***************************************************************************)
(* The comparator on malformed OIDs                                        *)
(***************************************************************************)
CalledCmpText == call # <<>> /\ call[1] = "cmp_oids text"

\* The OID text o has a component with a character that is not a digit
HasNonDigit(o) == \E i \in 1..Len(o) : o[i] # "." /\ ~IsDigitChar(o[i])

\* C25: the comparator reports a format error, and no ordering result, whenever
\* one of the two OIDs has a component with a character that is not a digit,
\* wherever that component is and whatever the other components are.
C25_NonDigitIsFormatError ==
    (CalledCmpText /\ (HasNonDigit(call[2]) \/ HasNonDigit(call[3])))
    => result = CmpNone

\* The format error is reported when the components compared before the one
\* that is not a number are equal and the other OID is as long
FormatErrorWhenReached ==
    (CalledCmpText /\ call[2] = <<".", "1", ".", "x">> /\ call[3] = <<".", "1", ".", "2">>)
    => result = CmpNone

(***************************************************************************)
(* The average of a cycle                                                  *)
(***************************************************************************)
CalledAvg == call # <<>> /\ call[1] = "avg_acc"

RECURSIVE Sum(_)
Sum(vs) == IF vs = <<>> THEN 0 ELSE vs[1] + Sum(Tail(vs))

\* r is the integer nearest to n/d (d > 0), and the even one of the two when
\* n/d is half way between two integers
IsNearestEven(r, n, d) ==
    /\ 2 * (n - r * d) <= d
    /\ 2 * (r * d - n) <= d
    /\ (2 * (n - r * d) = d \/ 2 * (r * d - n) = d) => r % 2 = 0

\* C26: after the reads of a cycle the channel was read once per sample and its
\* last value is accumulator * factor / samples rounded to the nearest integer,
\* half-way quotients to the even one: the samples 10, 20, 30 with the factor
\* 1 give 20, and the accumulator 5 of 2 samples gives 2.
C26_AverageRounded ==
    CalledAvg =>
        /\ result.samples = Len(call[2])
        /\ result.acc = Sum(call[2])
        /\ result.valid
        /\ IsNearestEven(result.last, result.acc * call[3][1], result.samples * call[3][2])
        /\ (call[2] = <<10, 20, 30>> /\ call[3] = <<1, 1>>) => result.last = 20
        /\ (result.acc = 5 /\ result.samples = 2 /\ call[3] = <<1, 1>>) => result.last = 2

\* The accumulator 5 of the two samples 2 and 3 was averaged with the factor 1
C26_Witness ==
    /\ CalledAvg
    /\ call[2] = <<2, 3>>
    /\ call[3] = <<1, 1>>
    /\ result.last = 2

\* A cycle of the main program that completed without a failed read has read
\* every channel DEF_AVG_SAMPLES times and rounded its average
CycleReadsEverySample ==
    (status = "running" /\ valid /\ cycle > 0 /\ failures = 0 /\ ~lock)
    => \A ch \in Channels :
          /\ vec[ch].samples = DEF_AVG_SAMPLES
          /\ IsNearestEven(vec[ch].last, vec[ch].acc * FactorNum,
                           vec[ch].samples * FactorDen)

(***************************************************************************)
(* The statistics counters                                                 *)
(***************************************************************************)
\* The identities between the counters
CountersAddUp ==
    /\ in_pkts_total = in_pkts_valid + in_pkts_bad
    /\ in_pkts_bad = in_pkts_bad_ver + in_pkts_bad_len + in_pkts_bad_cmd
    /\ out_pkts_total = out_pkts_success + out_pkts_failed
    /\ out_pkts_total <= in_pkts_valid

\* No counter is smaller after a step than before
CountersGrow ==
    /\ in_pkts_total' >= in_pkts_total
    /\ in_pkts_valid' >= in_pkts_valid
    /\ in_pkts_bad' >= in_pkts_bad
    /\ in_pkts_bad_ver' >= in_pkts_bad_ver
    /\ in_pkts_bad_len' >= in_pkts_bad_len
    /\ in_pkts_bad_cmd' >= in_pkts_bad_cmd
    /\ out_pkts_total' >= out_pkts_total
    /\ out_pkts_success' >= out_pkts_success
    /\ out_pkts_failed' >= out_pkts_failed

\* C27: whatever datagrams were received, inbound total = valid + bad, bad =
\* bad-version + bad-length + bad-command, outbound total = success + failed,
\* outbound total <= inbound valid, and no counter ever decreases.
C27_CountersConsistent == []CountersAddUp /\ [][CountersGrow]_vars

\* A GETLAST was answered, its answer sent short, and a datagram with a wrong
\* length was counted
C27_Witness ==
    /\ out_pkts_failed = 1
    /\ out_pkts_total = 1
    /\ in_pkts_bad_len = 1
    /\ in_pkts_valid = 1
    /\ in_pkts_total = 2

(***************************************************************************)
(* The walk of a client                                                    *)
(***************************************************************************)
\* The OIDs the replies to successive getnext requests return, the first
\* request for oid and each further one for the OID of the reply before, until
\* a request is not answered with a value; n requests at most
RECURSIVE ClientWalk(_, _)
ClientWalk(oid, n) ==
    LET r == StdinRequest(mib_init.mib, mib_init.oids, <<GETNEXT, Append(oid, NL)>>)
    IN  IF n = 0 \/ r.raised \/ Len(r.out) # 3 THEN <<>>
        ELSE <<r.out[1]>> \o ClientWalk(r.out[1], n - 1)

\* The OIDs of the registered variables a client may read, in ascending order
RECURSIVE AccessibleFrom(_)
AccessibleFrom(k) ==
    IF k > Len(Ordered) THEN <<>>
    ELSE (IF IsAccessible(Ordered[k]) THEN <<MIB_BASE \o Ordered[k]>> ELSE <<>>)
         \o AccessibleFrom(k + 1)

\* C28: once a measurement cycle has completed, the walk of a client that
\* starts with getnext on the registry base and goes on with the OID of each
\* reply visits every registered variable of access read-only or more exactly
\* once, in ascending order of the OIDs, and gets NONE only after the last one.
C28_WalkVisitsAll ==
    (status = "running" /\ cycle > 0 /\ valid /\ pc["reactor"] = "poll")
    => ClientWalk(MIB_BASE, Len(Ordered) + 1) = AccessibleFrom(1)

====
